---- MODULE Spec2Model ----
(***************************************************************************)
(* A model of the session-key recovery / encrypted-message decryption      *)
(* pipeline (composed/message/decrypt.rs), the ECDH transport              *)
(* (crypto/ecdh.rs) and the signature-packet parser (packet/tags/sig.rs).  *)
(*                                                                         *)
(* Four specifications share the module, one per subsystem:                *)
(*   Spec      the MessageDecrypter iterator                               *)
(*   SpecEcdh  ecdh::encrypt / ecdh::decrypt                               *)
(*   SpecSk    decrypt_session_key / decrypt_session_key_with_password     *)
(*   SpecSig   the v4 signature parser                                     *)
(* Each keeps the variables of the other subsystems at their idle value.   *)
(* Bytes are the naturals 0..255, byte strings are sequences of them.      *)
(***************************************************************************)
EXTENDS Integers, Sequences, FiniteSets, TLC

VARIABLES
    edata,          \* MessageDecrypter.edata: the encrypted-data packets
    pos,            \* MessageDecrypter.pos (number of packets taken so far)
    current_msgs,   \* MessageDecrypter.current_msgs: [some, items]
    ret,            \* what the last call of next() returned
    attempts,       \* history: packet indices (1-based) handed to decryption
    yielded,        \* history: the Some(Ok(..)) items returned so far
    methods,        \* history: the decryption method called at each attempt
    calls,          \* history: number of next() calls made
    e_in,           \* ECDH: the input of the last operation
    e_out,          \* ECDH: the result of the last operation
    k_in,           \* session key recovery: input of the last operation
    k_out,          \* session key recovery: result of the last operation
    s_in,           \* signature parser: the packet handed to the parser
    s_out           \* signature parser: the parser's result

iterVars == <<edata, pos, current_msgs, ret, attempts, yielded, methods, calls>>
ecdhVars == <<e_in, e_out>>
skVars == <<k_in, k_out>>
sigVars == <<s_in, s_out>>
vars == <<edata, pos, current_msgs, ret, attempts, yielded, methods, calls,
          e_in, e_out, k_in, k_out, s_in, s_out>>

(***************************************************************************)
(* Generic helpers on byte strings.                                        *)
(***************************************************************************)
Byte == 0..255

RECURSIVE SumFrom(_, _)
SumFrom(s, i) == IF i > Len(s) THEN 0 ELSE s[i] + SumFrom(s, i + 1)

SumSeq(s) == SumFrom(s, 1)

Rev(s) == [i \in 1..Len(s) |-> s[Len(s) + 1 - i]]

Zeros(n) == [i \in 1..n |-> 0]

Fill(n, b) == [i \in 1..n |-> b]

\* s[a..] in Rust's 0-based half-open notation is SubSeq(s, a+1, Len(s))
From(s, a) == SubSeq(s, a + 1, Len(s))

\* s[..b]
Upto(s, b) == SubSeq(s, 1, b)

RECURSIVE Concat(_)
Concat(ss) == IF ss = <<>> THEN <<>> ELSE Head(ss) \o Concat(Tail(ss))

(***************************************************************************)
(* Idle values of the subsystems a specification does not exercise.        *)
(***************************************************************************)
IterIdle ==
    /\ edata = <<>>
    /\ pos = 0
    /\ current_msgs = [some |-> FALSE, items |-> <<>>]
    /\ ret = [kind |-> "Init", slot |-> 0, idx |-> 0]
    /\ attempts = <<>>
    /\ yielded = <<>>
    /\ methods = <<>>
    /\ calls = 0

EcdhIdle == e_in = [op |-> "none"] /\ e_out = [op |-> "none"]

SkIdle == k_in = [op |-> "none"] /\ k_out = [op |-> "none"]

SigIdle == s_in = [op |-> "none"] /\ s_out = [op |-> "none"]

(***************************************************************************)
(* 1. The encrypted-message iterator (decrypt.rs, MessageDecrypter).       *)
(*                                                                         *)
(* An Edata packet is [tag, intact, n]: `tag` is the packet tag, `intact`  *)
(* says whether the symmetric decryption of its data succeeds under the    *)
(* session key (for a protected packet: the MDC verifies), `n` the number  *)
(* of inner messages its plaintext parses to.                              *)
(***************************************************************************)
MaxEdata == 3
MaxInner == 1
MaxCalls == 6

Tags == {"SymEncryptedData", "SymEncryptedProtectedData"}

EdataPackets == [tag : Tags, intact : BOOLEAN, n : 0..MaxInner]

RECURSIVE SeqsUpTo(_, _)
SeqsUpTo(S, n) ==
    IF n = 0 THEN {<<>>}
    ELSE LET shorter == SeqsUpTo(S, n - 1)
         IN shorter \cup {Append(s, x) : s \in {t \in shorter : Len(t) = n - 1}, x \in S}

\* SymmetricKeyAlgorithm::decrypt_protected: fails when the MDC does not verify
decrypt_protected(packet) ==
    IF packet.intact THEN [ok |-> TRUE, n |-> packet.n, via |-> "decrypt_protected"]
    ELSE [ok |-> FALSE, n |-> 0, via |-> "decrypt_protected"]

\* SymmetricKeyAlgorithm::decrypt
decrypt_regular(packet) ==
    IF packet.intact THEN [ok |-> TRUE, n |-> packet.n, via |-> "decrypt"]
    ELSE [ok |-> FALSE, n |-> 0, via |-> "decrypt"]

\* Message::from_bytes_many over the plaintext of packet `slot`: the lazy
\* sequence of its inner messages
from_bytes_many(slot, n) == [j \in 1..n |-> [kind |-> "Ok", slot |-> slot, idx |-> j]]

None == [kind |-> "None", slot |-> 0, idx |-> 0]

SomeErr(slot) == [kind |-> "Err", slot |-> slot, idx |-> 0]

\* MessageDecrypter::new
MessageDecrypterNew(packets) ==
    /\ edata = packets
    /\ pos = 0
    /\ current_msgs = [some |-> FALSE, items |-> <<>>]
    /\ ret = [kind |-> "Init", slot |-> 0, idx |-> 0]
    /\ attempts = <<>>
    /\ yielded = <<>>
    /\ methods = <<>>
    /\ calls = 0

\* the increment left out
KeepPos(p) == p

\* self.pos += 1
AdvancePos(p) == p + 1

\* every packet handed to decrypt, whatever its tag
DecryptUnprotected(packet) == decrypt_regular(packet)

\* the decryption of the packet just taken: decrypt_protected iff the tag is
\* SymEncryptedProtectedData
DecryptPacket(packet) ==
    IF packet.tag = "SymEncryptedProtectedData"
    THEN decrypt_protected(packet)
    ELSE decrypt_regular(packet)

\* msgs.next() on the boxed inner iterator: the head, or None once exhausted
InnerNext(items) == IF items = <<>> THEN None ELSE Head(items)

InnerRest(items) == IF items = <<>> THEN <<>> ELSE Tail(items)

\* the tail of next(): take current_msgs, pull one element, put it back
Delegate(items) ==
    /\ current_msgs' = [some |-> TRUE, items |-> InnerRest(items)]
    /\ ret' = InnerNext(items)
    /\ yielded' = IF items = <<>> THEN yielded ELSE Append(yielded, Head(items))

\* next(), first branch: nothing left and no current stream
NextAtEnd ==
    /\ calls < MaxCalls
    /\ pos >= Len(edata) /\ ~current_msgs.some
    /\ ret' = None
    /\ calls' = calls + 1
    /\ UNCHANGED <<edata, pos, current_msgs, attempts, yielded, methods>>

\* next(), second branch: no current stream, decrypt another packet
NextDecrypt ==
    /\ calls < MaxCalls
    /\ ~(pos >= Len(edata) /\ ~current_msgs.some)
    /\ ~current_msgs.some
    /\ LET packet == edata[pos + 1]
           res == DecryptPacket(packet)
       IN /\ pos' = AdvancePos(pos)
          /\ attempts' = Append(attempts, pos + 1)
          /\ methods' = Append(methods, res.via)
          /\ IF res.ok
             THEN Delegate(from_bytes_many(pos + 1, res.n))
             ELSE /\ ret' = SomeErr(pos + 1)
                  /\ UNCHANGED <<current_msgs, yielded>>
    /\ calls' = calls + 1
    /\ UNCHANGED edata

\* next(), third branch: a current stream is installed
NextDelegate ==
    /\ calls < MaxCalls
    /\ current_msgs.some
    /\ Delegate(current_msgs.items)
    /\ calls' = calls + 1
    /\ UNCHANGED <<edata, pos, attempts, methods>>

(***************************************************************************)
(* 2. The ECDH transport (crypto/ecdh.rs).                                 *)
(*                                                                         *)
(* The primitives the transport consumes are modelled by small algebraic   *)
(* stand-ins that keep the properties the transport relies on:             *)
(*   - X25519: scalar multiplication on the integers mod 251 with base     *)
(*     point 9; a scalar is the little-endian value of its clamped bytes,  *)
(*     so byte order matters and both sides derive the same shared point;  *)
(*   - the hash: a position-weighted checksum spread over 32 bytes;        *)
(*   - AES-KW: an 8-byte integrity block followed by the data shifted by   *)
(*     the key stream; unwrap recomputes and compares the integrity block; *)
(*   - Mpi: a byte string without leading zero bytes.                      *)
(***************************************************************************)
SECRET_KEY_LENGTH == 32

ANON_SENDER ==
    <<65, 110, 111, 110, 121, 109, 111, 117, 115, 32,
      83, 101, 110, 100, 101, 114, 32, 32, 32, 32>>

\* ECCCurve::Curve25519.oid()
Curve25519Oid == <<43, 6, 1, 4, 1, 151, 85, 1, 5, 1>>

\* u8::from(PublicKeyAlgorithm::ECDH)
PkAlgoECDH == 18

\* u8::from(SymmetricKeyAlgorithm::AES128), u8::from(HashAlgorithm::default())
SymAES128 == 7
HashSHA2_256 == 8

\* SymmetricKeyAlgorithm::key_size, in bytes
key_size(alg) ==
    CASE alg = 7 -> 16
      [] alg = 8 -> 24
      [] alg = 9 -> 32
      [] OTHER -> 0

\* Mpi::from_raw / From<Vec<u8>>: leading zero bytes are not part of an MPI
RECURSIVE strip_leading_zeros(_)
strip_leading_zeros(bytes) ==
    IF bytes # <<>> /\ Head(bytes) = 0 THEN strip_leading_zeros(Tail(bytes)) ELSE bytes

MpiFrom(bytes) == strip_leading_zeros(bytes)

\* ---- X25519 stand-in ----
FieldPrime == 251
BasePoint == 9

RECURSIVE PowMod(_, _, _)
PowMod(b, e, m) == IF e = 0 THEN 1 % m ELSE (b * PowMod(b, e - 1, m)) % m

\* weight of byte i (1-based) of a 32-byte little-endian integer, mod FieldPrime
LeWeight == [i \in 1..SECRET_KEY_LENGTH |-> PowMod(256 % FieldPrime, i - 1, FieldPrime)]

RECURSIVE LeSum(_, _)
LeSum(bytes, i) ==
    IF i > Len(bytes) THEN 0 ELSE bytes[i] * LeWeight[i] + LeSum(bytes, i + 1)

LeValue(bytes) == LeSum(bytes, 1) % FieldPrime

\* curve25519_dalek::scalar::clamp_integer
clamp_integer(b) ==
    [b EXCEPT ![1] = b[1] - (b[1] % 8),
              ![SECRET_KEY_LENGTH] = (b[SECRET_KEY_LENGTH] % 64) + 64]

PointBytes(u) == <<u>> \o Zeros(SECRET_KEY_LENGTH - 1)

\* scalar multiplication; the scalar is clamped when it is used
ScalarMult(secret, u) == (LeValue(clamp_integer(secret)) * u) % FieldPrime

\* StaticSecret::from: keeps the bytes as given
StaticSecretFrom(bytes) == bytes

\* PublicKey::from(&StaticSecret)
PublicKeyOf(secret) == PointBytes(ScalarMult(secret, BasePoint))

\* PublicKey::from([u8; 32])
PublicKeyFrom(bytes) == bytes

\* StaticSecret::diffie_hellman
diffie_hellman(secret, public) == PointBytes(ScalarMult(secret, LeValue(public)))

\* ---- hash stand-in ----
RECURSIVE WeightedSum(_, _)
WeightedSum(data, i) ==
    IF i > Len(data) THEN 0 ELSE data[i] * i + WeightedSum(data, i + 1)

\* HashAlgorithm::digest
digest(hash, data) ==
    LET ws == WeightedSum(data, 1) + hash
    IN [i \in 1..32 |-> (ws * i + (ws \div 256) + i * i) % 256]

\* ---- AES key wrap stand-in ----
KwIv == 166

KeyStream(z, j) == z[((j - 1) % Len(z)) + 1]

KwTag(z, data) ==
    LET mix == SumSeq(data)
    IN [i \in 1..8 |-> (KwIv + KeyStream(z, i) * i + mix) % 256]

\* aes_kw::wrap
aes_kw_wrap(z, data) ==
    IF Len(data) % 8 # 0 \/ z = <<>>
    THEN [ok |-> FALSE, data |-> <<>>]
    ELSE [ok |-> TRUE,
          data |-> KwTag(z, data)
                   \o [j \in 1..Len(data) |-> (data[j] + KeyStream(z, j)) % 256]]

\* aes_kw::unwrap
aes_kw_unwrap(z, wrapped) ==
    IF Len(wrapped) % 8 # 0 \/ Len(wrapped) < 8 \/ z = <<>>
    THEN [ok |-> FALSE, data |-> <<>>]
    ELSE LET data == [j \in 1..(Len(wrapped) - 8) |->
                         (wrapped[8 + j] + 256 - KeyStream(z, j)) % 256]
         IN IF Upto(wrapped, 8) = KwTag(z, data)
            THEN [ok |-> TRUE, data |-> data]
            ELSE [ok |-> FALSE, data |-> <<>>]

\* ---- crypto/ecdh.rs ----
\* generate_key: the public point and the secret MPI (clamped, big endian)
generate_key(rng_bytes) ==
    LET secret == StaticSecretFrom(rng_bytes)
        p == <<64>> \o PublicKeyOf(secret)
        q_raw == clamp_integer(secret)
        q == Rev(q_raw)
    IN [p |-> MpiFrom(p), hash |-> HashSHA2_256, alg_sym |-> SymAES128,
        secret |-> MpiFrom(q)]

\* SecretKeyRepr for an ECDH key: the MPI right-aligned in 32 bytes
as_repr(secret_mpi) ==
    IF Len(secret_mpi) > SECRET_KEY_LENGTH THEN secret_mpi
    ELSE Zeros(SECRET_KEY_LENGTH - Len(secret_mpi)) \o secret_mpi

build_ecdh_param(oid, alg_sym, hash, fingerprint) ==
    LET kdf_params == <<3, 1, hash, alg_sym>>
        oid_len == <<Len(oid) % 256>>
        pkalgo == <<PkAlgoECDH>>
    IN Concat(<<oid_len, oid, pkalgo, kdf_params, ANON_SENDER, fingerprint>>)

kdf(hash, x, length, param) ==
    LET prefix == <<0, 0, 0, 1>>
        data == Concat(<<prefix, x, param>>)
        d == digest(hash, data)
    IN Upto(d, IF length < Len(d) THEN length ELSE Len(d))

EcdhErr(why, dh, unwrapped, padded) ==
    [res |-> "Err", err |-> why, key |-> <<>>, dh |-> dh, unwrapped |-> unwrapped,
     padded |-> padded]

EcdhPanic(why, dh) ==
    [res |-> "Panic", err |-> why, key |-> <<>>, dh |-> dh, unwrapped |-> FALSE,
     padded |-> <<>>]

block_size == 8

\* decrypt, the PKCS5-style unpadding block and the final non-empty check
Unpad(decrypted_key_padded) ==
    LET len == Len(decrypted_key_padded)
    IN IF len % block_size # 0
       THEN EcdhErr("invalid key length", TRUE, TRUE, decrypted_key_padded)
       ELSE IF decrypted_key_padded = <<>>
       THEN EcdhErr("empty key is not valid", TRUE, TRUE, decrypted_key_padded)
       ELSE LET pad == decrypted_key_padded[len]
            IN IF pad > len
               THEN EcdhErr("UnpadError", TRUE, TRUE, decrypted_key_padded)
               ELSE LET unpadded_len == len - pad
                    IN IF \E i \in (unpadded_len + 1)..len : decrypted_key_padded[i] # pad
                       THEN EcdhErr("UnpadError", TRUE, TRUE, decrypted_key_padded)
                       ELSE IF Upto(decrypted_key_padded, unpadded_len) = <<>>
                       THEN EcdhErr("empty unpadded key is not valid", TRUE, TRUE,
                                    decrypted_key_padded)
                       ELSE [res |-> "Ok", err |-> "", 
                             key |-> Upto(decrypted_key_padded, unpadded_len),
                             dh |-> TRUE, unwrapped |-> TRUE,
                             padded |-> decrypted_key_padded]

\* the preconditions without the check of the secret's length
PreconditionWithoutSecretLen(secret, mpis) ==
    IF Len(mpis) # 3 THEN "mpis.len"
    ELSE IF Len(mpis[1]) # 33 THEN "invalid public point"
    ELSE ""

\* decrypt: the three ensure_eq! preconditions; "" when they all hold
DecryptPrecondition(secret, mpis) ==
    IF Len(mpis) # 3 THEN "mpis.len"
    ELSE IF Len(mpis[1]) # 33 THEN "invalid public point"
    ELSE IF Len(secret) # 32 THEN "invalid secret point"
    ELSE ""

\* decrypt: our_secret, the recipient's scalar reversed to little endian
OurSecret(secret) == StaticSecretFrom(Rev(secret))

\* the wrapped key left-aligned instead
LeftAlign(encrypted_key_len, encrypted_session_key) ==
    encrypted_session_key \o Zeros(encrypted_key_len - Len(encrypted_session_key))

\* decrypt: the wrapped key right-aligned in a buffer of encrypted_key_len bytes
RightAlign(encrypted_key_len, encrypted_session_key) ==
    Zeros(encrypted_key_len - Len(encrypted_session_key)) \o encrypted_session_key

\* ecdh::decrypt(priv_key, mpis, fingerprint)
ecdh_decrypt(priv_key, mpis, fingerprint) ==
    LET param == build_ecdh_param(priv_key.oid, priv_key.alg_sym, priv_key.hash,
                                  fingerprint)
        pre == DecryptPrecondition(priv_key.secret, mpis)
    IN IF pre # "" THEN EcdhErr(pre, FALSE, FALSE, <<>>)
       \* copy_from_slice into the two 32-byte arrays panics on any other length
       ELSE IF Len(From(mpis[1], 1)) # SECRET_KEY_LENGTH
               \/ Len(priv_key.secret) # SECRET_KEY_LENGTH
       THEN EcdhPanic("copy_from_slice", FALSE)
       ELSE LET encrypted_session_key == mpis[3]
                their_public == PublicKeyFrom(From(mpis[1], 1))
                our_secret == OurSecret(priv_key.secret)
                shared_secret == diffie_hellman(our_secret, their_public)
                z == kdf(priv_key.hash, shared_secret, key_size(priv_key.alg_sym), param)
                encrypted_key_len == IF mpis[2] = <<>> THEN 0 ELSE mpis[2][1]
            IN IF Len(encrypted_session_key) > encrypted_key_len
               THEN EcdhPanic("encrypted_key_len - encrypted_session_key.len()", TRUE)
               ELSE LET unwrapped == aes_kw_unwrap(z,
                                        RightAlign(encrypted_key_len, encrypted_session_key))
                    IN IF ~unwrapped.ok
                       THEN EcdhErr("aes_kw::unwrap", TRUE, FALSE, <<>>)
                       ELSE Unpad(unwrapped.data)

max_size == 239

\* encrypt: PKCS5 padding of the plaintext to the next multiple of 8
Pkcs5Pad(plain) ==
    LET len == Len(plain)
        plain_padded == plain \o Zeros(8)
        bs == block_size * (len \div block_size)
    IN IF Len(plain_padded) < bs \/ Len(plain_padded) - bs < block_size
       THEN [ok |-> FALSE, data |-> <<>>]
       ELSE [ok |-> TRUE,
             data |-> [i \in 1..(bs + block_size) |->
                          IF i <= len THEN plain[i] ELSE block_size - (len - bs)]]

\* ecdh::encrypt(rng, curve, alg_sym, hash, fingerprint, q, plain)
ecdh_encrypt(rng_bytes, alg_sym, hash, fingerprint, q, plain) ==
    IF ~(Len(plain) < max_size) THEN [ok |-> FALSE, mpis |-> <<>>]
    ELSE IF Len(q) # 33 THEN [ok |-> FALSE, mpis |-> <<>>]
    ELSE LET param == build_ecdh_param(Curve25519Oid, alg_sym, hash, fingerprint)
             their_public == PublicKeyFrom(From(q, 1))
             our_secret == StaticSecretFrom(rng_bytes)
             shared_secret == diffie_hellman(our_secret, their_public)
             z == kdf(hash, shared_secret, key_size(alg_sym), param)
             padded == Pkcs5Pad(plain)
         IN IF ~padded.ok THEN [ok |-> FALSE, mpis |-> <<>>]
            ELSE LET wrapped == aes_kw_wrap(z, padded.data)
                 IN IF ~wrapped.ok THEN [ok |-> FALSE, mpis |-> <<>>]
                    ELSE LET encrypted_key == wrapped.data
                             encoded_public == <<64>> \o PublicKeyOf(our_secret)
                         IN IF Len(encrypted_key) > 255
                            THEN [ok |-> FALSE, mpis |-> <<>>]
                            ELSE [ok |-> TRUE,
                                  mpis |-> <<encoded_public, <<Len(encrypted_key)>>,
                                             encrypted_key>>]

\* ---- the operations exercised, and their inputs ----
MaxSeed == 2
MaxPlainLen == 9

\* the bytes an RNG seeded with `seed` hands out
RngBytes(seed, n) == [i \in 1..n |-> (seed * 89 + i * 37 + seed * i * i) % 256]

PlainOf(len, b0) == [i \in 1..len |-> IF i = 1 THEN b0 ELSE (i * 29 + 3) % 256]

FingerprintSeeds == {1, 2}

FingerprintOf(fseed) == RngBytes(fseed + 10, 20)

\* the recipient's key pair and its secret-key representation
KeyPairOf(rseed) == generate_key(RngBytes(rseed, SECRET_KEY_LENGTH))

PrivKeyOf(rseed) ==
    LET kp == KeyPairOf(rseed)
    IN [oid |-> Curve25519Oid, alg_sym |-> kp.alg_sym, hash |-> kp.hash,
        secret |-> as_repr(kp.secret)]

\* plaintext lengths tried: the short ones, and the two around max_size
PlainLens == (0..MaxPlainLen) \cup {max_size - 1, max_size}

\* padded buffers a sender other than ecdh::encrypt may wrap: `clen` bytes, the
\* last `pad` of them (at most) holding `pad`, the last byte always `pad`;
\* tamper = 1 alters the first byte of the padding run
CraftLens == {0, 8, 16, 40}
CraftPads == {0, 1, 5, 8, 9, 16, 21, 40, 41, 255}

CraftPadded(clen, pad, tamper) ==
    [i \in 1..clen |->
        IF i = clen THEN pad
        ELSE IF i > clen - pad
             THEN (IF tamper = 1 /\ (i = clen - pad + 1 \/ (pad > clen /\ i = 1))
                   THEN (pad + 1) % 256 ELSE pad)
             ELSE (i * 29 + 3) % 256]

EcdhInputShape(op, rseed, eseed, fseed, len, b0, clen, pad, tamper, nmpis, plen, slen, ldelta) ==
    [op |-> op, rseed |-> rseed, eseed |-> eseed, fseed |-> fseed, len |-> len,
     b0 |-> b0, clen |-> clen, pad |-> pad, tamper |-> tamper, nmpis |-> nmpis,
     plen |-> plen, slen |-> slen, ldelta |-> ldelta]

\* first bytes of the plaintexts tried
PlainFirstBytes == 0..63

RoundTripInputs ==
    {EcdhInputShape("roundtrip", r, e, f, len, b0, 0, 0, 0, 3, 33, 32, 0) :
        r \in 1..MaxSeed, e \in 1..MaxSeed, f \in FingerprintSeeds, len \in PlainLens,
        b0 \in PlainFirstBytes}

ForeignInputs ==
    {EcdhInputShape("foreign", r, e, 1, 0, 0, clen, pad, tamper, 3, 33, 32, 0) :
        r \in 1..MaxSeed, e \in 1..MaxSeed, clen \in CraftLens, pad \in CraftPads,
        tamper \in {0, 1}}

\* malformed packets and keys: wrong MPI count, wrong point length, wrong
\* secret length, a declared length differing from the wrapped key's
MalformedInputs ==
    {EcdhInputShape("malformed", r, 1, 1, 0, 0, 16, 8, 0, nmpis, plen, slen, ldelta) :
        r \in 1..MaxSeed, nmpis \in {0, 2, 3, 4}, plen \in {32, 33, 34},
        slen \in {31, 32, 33}, ldelta \in {0 - 8, 0, 8}}

EcdhNotRun == EcdhErr("not run", FALSE, FALSE, <<>>)

\* Vec<Vec<u8>> -> Vec<Mpi>, as the MPIs travel in the PKESK packet
ToMpis(raw) == [i \in 1..Len(raw) |-> MpiFrom(raw[i])]

\* test_encrypt_decrypt: encrypt to a generated key, decrypt with its secret
RoundTripResult(in) ==
    LET kp == KeyPairOf(in.rseed)
        fp == FingerprintOf(in.fseed)
        plain == PlainOf(in.len, in.b0)
        enc == ecdh_encrypt(RngBytes(in.eseed + 20, SECRET_KEY_LENGTH), kp.alg_sym,
                            kp.hash, fp, kp.p, plain)
    IN IF ~enc.ok
       THEN [op |-> "roundtrip", enc_ok |-> FALSE, raw |-> <<>>, mpis |-> <<>>,
             dec |-> EcdhNotRun]
       ELSE [op |-> "roundtrip", enc_ok |-> TRUE, raw |-> enc.mpis,
             mpis |-> ToMpis(enc.mpis),
             dec |-> ecdh_decrypt(PrivKeyOf(in.rseed), ToMpis(enc.mpis), fp)]

\* the MPIs of a sender that pads by its own rule (RFC 6637 allows padding of
\* more than one block) and wraps under the same KDF output
ForeignMpis(in, padded) ==
    LET kp == KeyPairOf(in.rseed)
        fp == FingerprintOf(in.fseed)
        eph == StaticSecretFrom(RngBytes(in.eseed + 20, SECRET_KEY_LENGTH))
        shared == diffie_hellman(eph, PublicKeyFrom(From(kp.p, 1)))
        z == kdf(kp.hash, shared, key_size(kp.alg_sym),
                 build_ecdh_param(Curve25519Oid, kp.alg_sym, kp.hash, fp))
        wrapped == aes_kw_wrap(z, padded).data
    IN <<(<<64>> \o PublicKeyOf(eph)), <<Len(wrapped)>>, wrapped>>

ForeignResult(in) ==
    LET raw == ForeignMpis(in, CraftPadded(in.clen, in.pad, in.tamper))
    IN [op |-> "foreign", enc_ok |-> TRUE, raw |-> raw, mpis |-> ToMpis(raw),
        dec |-> ecdh_decrypt(PrivKeyOf(in.rseed), ToMpis(raw), FingerprintOf(in.fseed))]

\* a well-formed triple bent out of shape as the input says
MalformedMpis(in) ==
    LET good == ForeignMpis(in, CraftPadded(in.clen, in.pad, in.tamper))
        point == IF in.plen <= 33 THEN Upto(good[1], in.plen)
                 ELSE good[1] \o Fill(in.plen - 33, 1)
        triple == <<point, <<Len(good[3]) + in.ldelta>>, good[3]>>
    IN IF in.nmpis <= 3 THEN Upto(triple, in.nmpis)
       ELSE triple \o [i \in 1..(in.nmpis - 3) |-> <<1>>]

MalformedSecret(in) ==
    LET good == PrivKeyOf(in.rseed).secret
    IN IF in.slen <= SECRET_KEY_LENGTH THEN Upto(good, in.slen)
       ELSE good \o Fill(in.slen - SECRET_KEY_LENGTH, 1)

MalformedResult(in) ==
    LET raw == MalformedMpis(in)
        priv == [PrivKeyOf(in.rseed) EXCEPT !.secret = MalformedSecret(in)]
    IN [op |-> "malformed", enc_ok |-> TRUE, raw |-> raw, mpis |-> ToMpis(raw),
        dec |-> ecdh_decrypt(priv, ToMpis(raw), FingerprintOf(in.fseed))]

\* points whose first byte is `b0` instead of 0x40, for both directions
PointPrefixes == {0, 4, 64, 65}

PrefixInputs ==
    {EcdhInputShape("prefix", r, e, 1, 8, b0, 16, 8, 0, 3, 33, 32, 0) :
        r \in 1..MaxSeed, e \in 1..MaxSeed, b0 \in PointPrefixes}

\* encrypt to the recipient's point with its first byte replaced, and decrypt
\* of a well-formed message whose ephemeral point had its first byte replaced
PrefixResult(in) ==
    LET kp == KeyPairOf(in.rseed)
        fp == FingerprintOf(in.fseed)
        q == <<in.b0>> \o From(kp.p, 1)
        enc == ecdh_encrypt(RngBytes(in.eseed + 20, SECRET_KEY_LENGTH), kp.alg_sym,
                            kp.hash, fp, q, PlainOf(in.len, 1))
        good == ForeignMpis(in, CraftPadded(in.clen, in.pad, in.tamper))
        raw == <<(<<in.b0>> \o From(good[1], 1)), good[2], good[3]>>
    IN [op |-> "prefix", enc_ok |-> enc.ok, raw |-> raw, mpis |-> ToMpis(raw),
        dec |-> ecdh_decrypt(PrivKeyOf(in.rseed), ToMpis(raw), fp)]

EcdhRoundTrip ==
    /\ e_in.op = "roundtrip" /\ e_out.op = "none"
    /\ e_out' = RoundTripResult(e_in)
    /\ UNCHANGED <<e_in, iterVars, skVars, sigVars>>

EcdhDecryptForeign ==
    /\ e_in.op = "foreign" /\ e_out.op = "none"
    /\ e_out' = ForeignResult(e_in)
    /\ UNCHANGED <<e_in, iterVars, skVars, sigVars>>

EcdhDecryptMalformed ==
    /\ e_in.op = "malformed" /\ e_out.op = "none"
    /\ e_out' = MalformedResult(e_in)
    /\ UNCHANGED <<e_in, iterVars, skVars, sigVars>>

EcdhPointPrefix ==
    /\ e_in.op = "prefix" /\ e_out.op = "none"
    /\ e_out' = PrefixResult(e_in)
    /\ UNCHANGED <<e_in, iterVars, skVars, sigVars>>

InitEcdh ==
    /\ e_in \in RoundTripInputs \cup ForeignInputs \cup MalformedInputs \cup PrefixInputs
    /\ e_out = [op |-> "none"]
    /\ IterIdle /\ SkIdle /\ SigIdle

NextEcdh == EcdhRoundTrip \/ EcdhDecryptForeign \/ EcdhDecryptMalformed \/ EcdhPointPrefix

SpecEcdh == InitEcdh /\ [][NextEcdh]_vars

(***************************************************************************)
(* 3. Session-key recovery (decrypt.rs, decrypt_session_key and            *)
(*    decrypt_session_key_with_password).                                  *)
(*                                                                         *)
(* A SymmetricKeyAlgorithm is represented by its identifier byte.  The     *)
(* asymmetric step (rsa::decrypt, ecdh::decrypt) is an input: it either    *)
(* failed or produced the cleartext blob.                                  *)
(***************************************************************************)
Plaintext == 0

\* SymmetricKeyAlgorithm::from(u8)
SymmetricKeyAlgorithmFrom(b) == b

\* checksum::calculate_simple: the sum of the bytes mod 65536
calculate_simple(data) == SumSeq(data) % 65536

\* u16::to_be_bytes
to_be_bytes(x) == <<x \div 256, x % 256>>

\* checksum::simple(actual, data): Ok iff the stored bytes are the sum, big endian
checksum_simple(actual, data) == Upto(actual, 2) = to_be_bytes(calculate_simple(data))

SkOk(key, alg) == [res |-> "Ok", err |-> "", key |-> key, alg |-> alg]

SkErr(why) == [res |-> "Err", err |-> why, key |-> <<>>, alg |-> Plaintext]

SkPanic(why) == [res |-> "Panic", err |-> why, key |-> <<>>, alg |-> Plaintext]

\* the check left out
AnyAlgorithm(alg) == TRUE

\* the ensure! that rejects Plaintext as the session key algorithm
NotPlaintext(alg) == alg # Plaintext

\* decrypt_session_key, the other arm:
\* (&decrypted_key[1..=key_size], &decrypted_key[key_size + 1..key_size + 3])
SplitOther(decrypted_key, alg) ==
    LET ks == key_size(alg)
    IN IF Len(decrypted_key) < ks + 3
       THEN [ok |-> FALSE, k |-> <<>>, checksum |-> <<>>]
       ELSE [ok |-> TRUE, k |-> SubSeq(decrypted_key, 2, ks + 1),
             checksum |-> SubSeq(decrypted_key, ks + 2, ks + 3)]

\* the ECDH arm splitting by key size, as the other arm does
SplitEcdhByKeySize(decrypted_key) ==
    SplitOther(decrypted_key, SymmetricKeyAlgorithmFrom(decrypted_key[1]))

\* decrypt_session_key, the ECDH arm of the (k, checksum) match:
\* (&decrypted_key[1..dec_len - 2], &decrypted_key[dec_len - 2..])
SplitEcdh(decrypted_key) ==
    LET dec_len == Len(decrypted_key)
    IN IF dec_len < 2 \/ 1 > dec_len - 2
       THEN [ok |-> FALSE, k |-> <<>>, checksum |-> <<>>]
       ELSE [ok |-> TRUE, k |-> SubSeq(decrypted_key, 2, dec_len - 2),
             checksum |-> From(decrypted_key, dec_len - 2)]

\* decrypt_session_key(locked_key, key_pw, mpis); `kind` is the SecretKeyRepr
\* variant, `step` the result of rsa::decrypt / ecdh::decrypt on the MPIs
decrypt_session_key(kind, step) ==
    IF kind = "DSA" THEN SkErr("DSA is only used for signing")
    ELSE IF kind = "ECDSA" THEN SkErr("ECDSA is only used for signing")
    ELSE IF kind = "EdDSA" THEN SkErr("unimplemented: EdDSA")
    ELSE IF ~step.ok THEN SkErr("decrypt")
    ELSE LET decrypted_key == step.data
         IN IF decrypted_key = <<>> THEN SkPanic("decrypted_key[0]")
            ELSE LET session_key_algorithm == SymmetricKeyAlgorithmFrom(decrypted_key[1])
                 IN IF ~NotPlaintext(session_key_algorithm)
                    THEN SkErr("session key algorithm cannot be plaintext")
                    ELSE LET parts == IF kind = "ECDH" THEN SplitEcdh(decrypted_key)
                                      ELSE SplitOther(decrypted_key, session_key_algorithm)
                         IN IF ~parts.ok THEN SkPanic("slice index")
                            ELSE IF ~checksum_simple(parts.checksum, parts.k)
                            THEN SkErr("invalid simple checksum")
                            ELSE SkOk(parts.k, session_key_algorithm)

\* SymmetricKeyAlgorithm::block_size
sym_block_size(alg) == IF alg \in {7, 8, 9} THEN 16 ELSE 8

\* StringToKey::derive_key(password, key_size)
derive_key(pw, size) == [i \in 1..size |-> (pw * 61 + i * 13) % 256]

\* the CFB stand-in: the data shifted by a stream made of key and iv
CfbStream(key, iv, j) ==
    (IF key = <<>> THEN 0 ELSE key[((j - 1) % Len(key)) + 1])
    + (IF iv = <<>> THEN 0 ELSE iv[((j - 1) % Len(iv)) + 1]) + j

encrypt_with_iv_regular(key, iv, buf) ==
    [j \in 1..Len(buf) |-> (buf[j] + CfbStream(key, iv, j)) % 256]

\* SymmetricKeyAlgorithm::decrypt_with_iv_regular
decrypt_with_iv_regular(key, iv, buf) ==
    [j \in 1..Len(buf) |-> (buf[j] + 512 - (CfbStream(key, iv, j) % 256)) % 256]

\* decrypt_session_key_with_password(packet, msg_pw)
decrypt_session_key_with_password(packet, pw) ==
    LET packet_algorithm == packet.sym_algorithm
    IN IF ~NotPlaintext(packet_algorithm)
       THEN SkErr("SKESK packet encryption algorithm cannot be plaintext")
       ELSE IF ~packet.s2k_ok THEN SkErr("derive_key")
       ELSE LET key == derive_key(pw, key_size(packet_algorithm))
            IN IF ~packet.has_key THEN SkOk(key, packet_algorithm)
               ELSE LET iv == Zeros(sym_block_size(packet.sym_algorithm))
                        decrypted_key == decrypt_with_iv_regular(key, iv, packet.encrypted_key)
                    IN IF decrypted_key = <<>> THEN SkPanic("decrypted_key[0]")
                       ELSE LET session_key_algorithm ==
                                    SymmetricKeyAlgorithmFrom(decrypted_key[1])
                            IN IF ~NotPlaintext(session_key_algorithm)
                               THEN SkErr("session key algorithm cannot be plaintext")
                               ELSE SkOk(From(decrypted_key, 1), session_key_algorithm)

\* ---- the operations exercised, and their inputs ----
MaxKeyPat == 2

SymAlgs == {Plaintext, 7, 8, 9}

KeyOf(pat, klen) == [i \in 1..klen |-> (pat * 83 + i * 7) % 256]

\* the stored checksum: right, or with one bit of a byte flipped
FlipBit(b) == IF b % 2 = 0 THEN b + 1 ELSE b - 1

StoredChecksum(key, cks) ==
    LET good == to_be_bytes(calculate_simple(key))
    IN CASE cks = "good" -> good
         [] cks = "flip_last" -> <<good[1], FlipBit(good[2])>>
         [] cks = "flip_first" -> <<FlipBit(good[1]), good[2]>>

\* a cleartext session-key blob: algorithm byte, key, checksum, `trail` more
\* bytes; cut >= 0 keeps only its first `cut` bytes
BlobOf(in) ==
    LET key == KeyOf(in.pat, in.klen)
        full == Concat(<<(<<in.alg>>), key, StoredChecksum(key, in.cks), Zeros(in.trail)>>)
    IN IF in.cut >= 0 THEN Upto(full, in.cut) ELSE full

SkInputShape(op, kind, ok, alg, klen, pat, cks, trail, cut, palg, s2k_ok, has_key) ==
    [op |-> op, kind |-> kind, ok |-> ok, alg |-> alg, klen |-> klen, pat |-> pat,
     cks |-> cks, trail |-> trail, cut |-> cut, palg |-> palg, s2k_ok |-> s2k_ok,
     has_key |-> has_key]

SecretKeyInputs ==
    {SkInputShape("secret_key", kind, ok, alg, klen, pat, cks, trail, cut, 7, TRUE, TRUE) :
        kind \in {"RSA", "ECDH"}, ok \in BOOLEAN, alg \in SymAlgs,
        klen \in {0, 1, 16, 24, 32}, pat \in 1..MaxKeyPat,
        cks \in {"good", "flip_last", "flip_first"}, trail \in {0, 2},
        cut \in {0 - 1, 0, 1, 2}}
    \cup
    {SkInputShape("secret_key", kind, TRUE, 7, 16, 1, "good", 0, 0 - 1, 7, TRUE, TRUE) :
        kind \in {"DSA", "ECDSA", "EdDSA"}}

PasswordInputs ==
    {SkInputShape("password", "none", TRUE, alg, klen, pat, "good", 0, cut, palg, s2k_ok,
                  has_key) :
        alg \in SymAlgs, klen \in {0, 16}, pat \in 1..MaxKeyPat, cut \in {0 - 1, 0},
        palg \in {Plaintext, 7, 9}, s2k_ok \in BOOLEAN, has_key \in BOOLEAN}

\* the blob rsa::decrypt / ecdh::decrypt hands back; ecdh::decrypt never
\* returns an empty one (its last ensure!)
StepOf(in) ==
    IF in.ok /\ ~(in.kind = "ECDH" /\ BlobOf(in) = <<>>)
    THEN [ok |-> TRUE, data |-> BlobOf(in)]
    ELSE [ok |-> FALSE, data |-> <<>>]

\* the SKESK packet: the session-key blob (algorithm byte, key) encrypted
\* under the S2K-derived key with an all-zero IV
SkeskBlob(in) ==
    LET full == <<in.alg>> \o KeyOf(in.pat, in.klen)
    IN IF in.cut >= 0 THEN Upto(full, in.cut) ELSE full

PasswordOf(in) == in.pat

PacketOf(in) ==
    [sym_algorithm |-> in.palg, s2k_ok |-> in.s2k_ok, has_key |-> in.has_key,
     encrypted_key |->
        IF in.has_key
        THEN encrypt_with_iv_regular(derive_key(PasswordOf(in), key_size(in.palg)),
                                     Zeros(sym_block_size(in.palg)), SkeskBlob(in))
        ELSE <<>>]

SkDecryptSessionKey ==
    /\ k_in.op = "secret_key" /\ k_out.op = "none"
    /\ k_out' = [op |-> "secret_key", r |-> decrypt_session_key(k_in.kind, StepOf(k_in))]
    /\ UNCHANGED <<k_in, iterVars, ecdhVars, sigVars>>

SkDecryptWithPassword ==
    /\ k_in.op = "password" /\ k_out.op = "none"
    /\ k_out' = [op |-> "password",
                 r |-> decrypt_session_key_with_password(PacketOf(k_in), PasswordOf(k_in))]
    /\ UNCHANGED <<k_in, iterVars, ecdhVars, sigVars>>

InitSk ==
    /\ k_in \in SecretKeyInputs \cup PasswordInputs
    /\ k_out = [op |-> "none"]
    /\ IterIdle /\ EcdhIdle /\ SigIdle

NextSk == SkDecryptSessionKey \/ SkDecryptWithPassword

SpecSk == InitSk /\ [][NextSk]_vars

(***************************************************************************)
(* 4. The signature-packet parser (packet/tags/sig.rs).                    *)
(*                                                                         *)
(* A parser maps its input bytes to an IResult: Done(rest, value), Error,  *)
(* Incomplete, or Panic when the code panics inside it.  The nom           *)
(* combinators are modelled by what they do with these results:            *)
(*   map_opt!      Error when the mapping yields no value                  *)
(*   take!(n)      Incomplete when fewer than n bytes are left             *)
(*   flat_map!     runs the second parser on the first one's output and    *)
(*                 drops whatever the second one left unconsumed           *)
(*   many0!        stops at the child's first Error and returns what it    *)
(*                 has collected; passes Incomplete on                     *)
(*   many1!        as many0!, but Error when the first child fails         *)
(* An Option is a sequence of length at most one, a string its bytes, a    *)
(* timestamp its epoch seconds, an enum value its discriminant.            *)
(***************************************************************************)
Done(rest, val) == [st |-> "Done", rest |-> rest, val |-> val]

Fail(st) == [st |-> st, rest |-> <<>>, val |-> <<>>]

\* nom sequencing: the next parser runs on what the one before left
Bind(r, K(_)) == IF r.st # "Done" THEN r ELSE K(r)

\* the discriminants the enums of packet::types accept in from_u8
SignatureVersions == {2, 3, 4}
SignatureTypes == {0, 1, 2, 16, 17, 18, 19, 24, 25, 31, 32, 40, 48, 64, 80}
PublicKeyAlgorithms == {1, 2, 3, 16, 17, 18, 19, 20, 21, 22}
HashAlgorithms == {1, 2, 3, 8, 9, 10, 11}
SymmetricKeyAlgorithms == {0, 1, 2, 3, 4, 7, 8, 9, 10, 11, 12, 13}
CompressionAlgorithms == {0, 1, 2, 3}
RevocationCodes == {0, 1, 2, 3, 32}

\* SubpacketType, by discriminant
SubpacketTypeName ==
    [t \in {2, 3, 4, 5, 6, 7, 9, 11, 12, 16, 20, 21, 22, 23, 24, 25, 26, 27, 28, 29,
            30, 31, 32} |->
        CASE t = 2 -> "SignatureCreationTime"
          [] t = 3 -> "SignatureExpirationTime"
          [] t = 4 -> "ExportableCertification"
          [] t = 5 -> "TrustSignature"
          [] t = 6 -> "RegularExpression"
          [] t = 7 -> "Revocable"
          [] t = 9 -> "KeyExpirationTime"
          [] t = 11 -> "PreferredSymmetricAlgorithms"
          [] t = 12 -> "RevocationKey"
          [] t = 16 -> "Issuer"
          [] t = 20 -> "NotationData"
          [] t = 21 -> "PreferredHashAlgorithms"
          [] t = 22 -> "PreferredCompressionAlgorithms"
          [] t = 23 -> "KeyServerPreferences"
          [] t = 24 -> "PreferredKeyServer"
          [] t = 25 -> "PrimaryUserID"
          [] t = 26 -> "PolicyURI"
          [] t = 27 -> "KeyFlags"
          [] t = 28 -> "SignersUserID"
          [] t = 29 -> "RevocationReason"
          [] t = 30 -> "Features"
          [] t = 31 -> "SignatureTarget"
          [] t = 32 -> "EmbeddedSignature"]

KnownSubpacketTypes == DOMAIN SubpacketTypeName

\* a Subpacket value: the variant, its scalar or byte payload, a second
\* payload (the notation's value), and the nested signature if it is one
Subpacket(t, v) == [t |-> t, v |-> v, v2 |-> <<>>, sig |-> <<>>]

\* ---- nom primitives ----
be_u8(i) == IF Len(i) < 1 THEN Fail("Incomplete") ELSE Done(From(i, 1), i[1])

be_u16(i) == IF Len(i) < 2 THEN Fail("Incomplete") ELSE Done(From(i, 2), i[1] * 256 + i[2])

be_u32(i) ==
    IF Len(i) < 4 THEN Fail("Incomplete")
    ELSE Done(From(i, 4), ((i[1] * 256 + i[2]) * 256 + i[3]) * 256 + i[4])

take(i, n) == IF Len(i) < n THEN Fail("Incomplete") ELSE Done(From(i, n), Upto(i, n))

\* tag!: Error on a mismatch within the bytes present, else Incomplete when short
tag(i, t) ==
    LET m == IF Len(i) < Len(t) THEN Len(i) ELSE Len(t)
    IN IF Upto(i, m) # Upto(t, m) THEN Fail("Error")
       ELSE IF Len(i) < Len(t) THEN Fail("Incomplete")
       ELSE Done(From(i, Len(t)), t)

\* map_opt!(be_u8, E::from_u8)
enum_u8(i, valid) ==
    IF Len(i) < 1 THEN Fail("Incomplete")
    ELSE IF i[1] \notin valid THEN Fail("Error")
    ELSE Done(From(i, 1), i[1])

\* the longest prefix of i whose bytes are all in valid
RECURSIVE ValidPrefixLen(_, _, _)
ValidPrefixLen(i, valid, k) ==
    IF k < Len(i) /\ i[k + 1] \in valid THEN ValidPrefixLen(i, valid, k + 1) ELSE k

\* many1!(map_opt!(be_u8, E::from_u8))
many1_enum_u8(i, valid) ==
    IF i = <<>> THEN Fail("Incomplete")
    ELSE IF i[1] \notin valid THEN Fail("Error")
    ELSE LET k == ValidPrefixLen(i, valid, 0)
         IN Done(From(i, k), Upto(i, k))

\* str::from_utf8 succeeds: well-formed 1- to 4-byte sequences
RECURSIVE Utf8Valid(_)
Utf8Valid(b) ==
    LET Cont(k) == k <= Len(b) /\ b[k] >= 128 /\ b[k] <= 191
    IN IF b = <<>> THEN TRUE
       ELSE IF b[1] < 128 THEN Utf8Valid(From(b, 1))
       ELSE IF b[1] >= 194 /\ b[1] <= 223 THEN Cont(2) /\ Utf8Valid(From(b, 2))
       ELSE IF b[1] >= 224 /\ b[1] <= 239 THEN Cont(2) /\ Cont(3) /\ Utf8Valid(From(b, 3))
       ELSE IF b[1] >= 240 /\ b[1] <= 244
            THEN Cont(2) /\ Cont(3) /\ Cont(4) /\ Utf8Valid(From(b, 4))
       ELSE FALSE

\* util::packet_length: the 1-, 2- or 5-octet new-format length
packet_length(i) ==
    IF Len(i) < 1 THEN Fail("Incomplete")
    ELSE IF i[1] < 192 THEN Done(From(i, 1), i[1])
    ELSE IF i[1] < 255
         THEN (IF Len(i) < 2 THEN Fail("Incomplete")
               ELSE Done(From(i, 2), (i[1] - 192) * 256 + i[2] + 192))
    ELSE (IF Len(i) < 5 THEN Fail("Incomplete")
          ELSE Done(From(i, 5), ((i[2] * 256 + i[3]) * 256 + i[4]) * 256 + i[5]))

\* dt_from_timestamp
dt_from_timestamp(ts) == ts

\* ---- the subpacket parsers ----
signature_creation_time(body) ==
    LET r == be_u32(body)
    IN IF r.st # "Done" THEN r
       ELSE Done(r.rest, Subpacket("SignatureCreationTime", <<dt_from_timestamp(r.val)>>))

issuer(body) ==
    LET r == take(body, 8)
    IN IF r.st # "Done" THEN r ELSE Done(r.rest, Subpacket("Issuer", r.val))

key_expiration(body) ==
    LET r == be_u32(body)
    IN IF r.st # "Done" THEN r
       ELSE Done(r.rest, Subpacket("KeyExpirationTime", <<dt_from_timestamp(r.val)>>))

pref_sym_alg(body) ==
    LET r == many1_enum_u8(body, SymmetricKeyAlgorithms)
    IN IF r.st # "Done" THEN r
       ELSE Done(r.rest, Subpacket("PreferredSymmetricAlgorithms", r.val))

pref_hash_alg(body) ==
    LET r == many1_enum_u8(body, HashAlgorithms)
    IN IF r.st # "Done" THEN r ELSE Done(r.rest, Subpacket("PreferredHashAlgorithms", r.val))

pref_com_alg(body) ==
    LET r == many1_enum_u8(body, CompressionAlgorithms)
    IN IF r.st # "Done" THEN r
       ELSE Done(r.rest, Subpacket("PreferredCompressionAlgorithms", r.val))

signature_expiration_time(body) ==
    LET r == be_u32(body)
    IN IF r.st # "Done" THEN r
       ELSE Done(r.rest, Subpacket("SignatureExpirationTime", <<dt_from_timestamp(r.val)>>))

BoolByte(b) == IF b THEN 1 ELSE 0

revocable(body) ==
    LET r == be_u8(body)
    IN IF r.st # "Done" THEN r
       ELSE Done(r.rest, Subpacket("Revocable", <<BoolByte(r.val = 1)>>))

revocation_key(body) ==
    LET class == be_u8(body)
    IN IF class.st # "Done" THEN class
       ELSE LET alg == enum_u8(class.rest, PublicKeyAlgorithms)
            IN IF alg.st # "Done" THEN alg
               ELSE LET fp == take(alg.rest, 20)
                    IN IF fp.st # "Done" THEN fp
                       ELSE Done(fp.rest,
                                 Subpacket("RevocationKey", <<class.val, alg.val>> \o fp.val))

notation_data(body) ==
    LET flags == tag(body, <<128, 0, 0, 0>>)
    IN IF flags.st # "Done" THEN flags
       ELSE LET name_len == be_u16(flags.rest)
            IN IF name_len.st # "Done" THEN name_len
               ELSE LET value_len == be_u16(name_len.rest)
                    IN IF value_len.st # "Done" THEN value_len
                       ELSE LET name == take(value_len.rest, name_len.val)
                            IN IF name.st # "Done" THEN name
                               ELSE IF ~Utf8Valid(name.val) THEN Fail("Error")
                               ELSE LET value == take(name.rest, value_len.val)
                                    IN IF value.st # "Done" THEN value
                                       ELSE IF ~Utf8Valid(value.val) THEN Fail("Error")
                                       ELSE Done(value.rest,
                                                 [t |-> "Notation", v |-> name.val,
                                                  v2 |-> value.val, sig |-> <<>>])

key_server_prefs(body) == Done(<<>>, Subpacket("KeyServerPreferences", body))

preferred_key_server(body) ==
    IF ~Utf8Valid(body) THEN Fail("Error")
    ELSE Done(<<>>, Subpacket("PreferredKeyServer", body))

primary_userid(body) ==
    LET r == be_u8(body)
    IN IF r.st # "Done" THEN r
       ELSE Done(r.rest, Subpacket("IsPrimary", <<BoolByte(r.val = 1)>>))

key_flags(body) == Done(<<>>, Subpacket("KeyFlags", body))

signers_userid(body) ==
    IF ~Utf8Valid(body) THEN Fail("Error")
    ELSE Done(<<>>, Subpacket("SignersUserID", body))

features(body) == Done(<<>>, Subpacket("Features", body))

rev_reason(body) ==
    LET code == enum_u8(body, RevocationCodes)
    IN IF code.st # "Done" THEN code
       ELSE Done(<<>>, Subpacket("RevocationReason", <<code.val>> \o code.rest))

RECURSIVE parser(_)

embedded_sig(body) ==
    Bind(parser(body), LAMBDA r :
        Done(r.rest, [t |-> "EmbeddedSignature", v |-> <<>>, v2 |-> <<>>,
                      sig |-> <<r.val>>]))

\* subpacket(typ, body): the dispatch on the subpacket type; unimplemented!
\* panics
subpacket(typ, body) ==
    CASE typ = "SignatureCreationTime" -> signature_creation_time(body)
      [] typ = "SignatureExpirationTime" -> signature_expiration_time(body)
      [] typ = "ExportableCertification" -> Fail("Panic")
      [] typ = "TrustSignature" -> Fail("Panic")
      [] typ = "RegularExpression" -> Fail("Panic")
      [] typ = "Revocable" -> revocable(body)
      [] typ = "KeyExpirationTime" -> key_expiration(body)
      [] typ = "PreferredSymmetricAlgorithms" -> pref_sym_alg(body)
      [] typ = "RevocationKey" -> revocation_key(body)
      [] typ = "Issuer" -> issuer(body)
      [] typ = "NotationData" -> notation_data(body)
      [] typ = "PreferredHashAlgorithms" -> pref_hash_alg(body)
      [] typ = "PreferredCompressionAlgorithms" -> pref_com_alg(body)
      [] typ = "KeyServerPreferences" -> key_server_prefs(body)
      [] typ = "PreferredKeyServer" -> preferred_key_server(body)
      [] typ = "PrimaryUserID" -> primary_userid(body)
      [] typ = "PolicyURI" -> Fail("Panic")
      [] typ = "KeyFlags" -> key_flags(body)
      [] typ = "SignersUserID" -> signers_userid(body)
      [] typ = "RevocationReason" -> rev_reason(body)
      [] typ = "Features" -> features(body)
      [] typ = "SignatureTarget" -> Fail("Panic")
      [] typ = "EmbeddedSignature" -> embedded_sig(body)

\* map_opt!(be_u8, SubpacketType::from_u8)
subpacket_type(i) ==
    IF Len(i) < 1 THEN Fail("Incomplete")
    ELSE IF i[1] \notin KnownSubpacketTypes THEN Fail("Error")
    ELSE Done(From(i, 1), SubpacketTypeName[i[1]])

\* one round of subpackets: length, type, flat_map!(take!(len - 1), subpacket);
\* `len - 1` with len = 0 panics where overflow is checked and otherwise asks
\* for more bytes than any input holds
one_subpacket(i, overflow_checks) ==
    Bind(packet_length(i), LAMBDA len :
    Bind(subpacket_type(len.rest), LAMBDA typ :
    IF len.val = 0
    THEN (IF overflow_checks THEN Fail("Panic") ELSE Fail("Incomplete"))
    ELSE Bind(take(typ.rest, len.val - 1), LAMBDA body :
         Bind(subpacket(typ.val, body.val), LAMBDA p : Done(body.rest, p.val)))))

\* the many0! loop of subpackets, with `res` the subpackets collected so far
RECURSIVE many0_subpackets(_, _, _)
many0_step(input, res, overflow_checks, r) ==
    CASE r.st = "Error" -> Done(input, res)
      [] r.st = "Incomplete" -> Fail("Incomplete")
      [] r.st = "Panic" -> Fail("Panic")
      [] r.st = "Done" ->
            IF r.rest = input THEN Fail("Error")
            ELSE many0_subpackets(r.rest, Append(res, r.val), overflow_checks)

many0_subpackets(input, res, overflow_checks) ==
    IF input = <<>> THEN Done(input, res)
    ELSE many0_step(input, res, overflow_checks, one_subpacket(input, overflow_checks))

\* the build profile: whether integer overflow is checked
OverflowChecks == s_in.overflow_checks

subpackets(input) == many0_subpackets(input, <<>>, OverflowChecks)

\* Signature::new
SignatureNew(version, typ, pub_alg, hash_alg) ==
    [version |-> version, typ |-> typ, pub_alg |-> pub_alg, hash_alg |-> hash_alg,
     created |-> <<>>, issuer |-> <<>>,
     preferred_symmetric_algs |-> <<>>, preferred_hash_algs |-> <<>>,
     preferred_compression_algs |-> <<>>,
     key_server_prefs |-> <<>>, key_flags |-> <<>>, features |-> <<>>,
     revocation_reason_code |-> <<>>, revocation_reason_string |-> <<>>,
     is_primary |-> FALSE, key_expiration_time |-> <<>>, is_revocable |-> TRUE,
     embedded_signature |-> <<>>, preferred_key_server |-> <<>>,
     signature_expiration_time |-> <<>>, notations |-> {},
     revocation_key |-> <<>>, signers_userid |-> <<>>,
     unhashed_subpackets |-> <<>>]

\* HashMap::insert on the notations, a set of <<name, value>> with one value
\* per name
NotationsInsert(m, name, value) == {e \in m : e[1] # name} \cup {<<name, value>>}

\* a list-valued arm that extends the list already there
ExtendList(old, list) == old \o list

\* v4_parser, the arms of the list-valued preference subpackets: sig.f = list
CollateList(old, list) == list

\* v4_parser, the arms that set an Option field: sig.f = Some(value)
CollateScalar(old, value) == <<value>>

\* v4_parser, one arm of the match over a hashed subpacket; [panic, sig]
CollateOne(sig, p) ==
    CASE p.t = "SignatureCreationTime" ->
            [panic |-> FALSE, sig |-> [sig EXCEPT !.created = CollateScalar(@, p.v[1])]]
      [] p.t = "Issuer" ->
            [panic |-> FALSE, sig |-> [sig EXCEPT !.issuer = CollateScalar(@, p.v)]]
      [] p.t = "PreferredSymmetricAlgorithms" ->
            [panic |-> FALSE,
             sig |-> [sig EXCEPT !.preferred_symmetric_algs = CollateList(@, p.v)]]
      [] p.t = "PreferredHashAlgorithms" ->
            [panic |-> FALSE,
             sig |-> [sig EXCEPT !.preferred_hash_algs = CollateList(@, p.v)]]
      [] p.t = "PreferredCompressionAlgorithms" ->
            [panic |-> FALSE,
             sig |-> [sig EXCEPT !.preferred_compression_algs = CollateList(@, p.v)]]
      [] p.t = "KeyServerPreferences" ->
            [panic |-> FALSE, sig |-> [sig EXCEPT !.key_server_prefs = p.v]]
      [] p.t = "KeyFlags" ->
            [panic |-> FALSE, sig |-> [sig EXCEPT !.key_flags = p.v]]
      [] p.t = "Features" ->
            [panic |-> FALSE, sig |-> [sig EXCEPT !.features = p.v]]
      [] p.t = "RevocationReason" ->
            IF ~Utf8Valid(From(p.v, 1)) THEN [panic |-> TRUE, sig |-> sig]
            ELSE [panic |-> FALSE,
                  sig |-> [sig EXCEPT !.revocation_reason_code = <<p.v[1]>>,
                                      !.revocation_reason_string = <<From(p.v, 1)>>]]
      [] p.t = "IsPrimary" ->
            [panic |-> FALSE, sig |-> [sig EXCEPT !.is_primary = (p.v[1] = 1)]]
      [] p.t = "KeyExpirationTime" ->
            [panic |-> FALSE,
             sig |-> [sig EXCEPT !.key_expiration_time = CollateScalar(@, p.v[1])]]
      [] p.t = "Revocable" ->
            [panic |-> FALSE, sig |-> [sig EXCEPT !.is_revocable = (p.v[1] = 1)]]
      [] p.t = "EmbeddedSignature" ->
            \* the pattern binds the name `sig` to the nested signature: the
            \* assignment goes to the nested value, not to the record being built
            [panic |-> FALSE, sig |-> sig]
      [] p.t = "PreferredKeyServer" ->
            [panic |-> FALSE, sig |-> [sig EXCEPT !.preferred_key_server = <<p.v>>]]
      [] p.t = "SignatureExpirationTime" ->
            [panic |-> FALSE,
             sig |-> [sig EXCEPT !.signature_expiration_time = CollateScalar(@, p.v[1])]]
      [] p.t = "Notation" ->
            [panic |-> FALSE,
             sig |-> [sig EXCEPT !.notations = NotationsInsert(@, p.v, p.v2)]]
      [] p.t = "RevocationKey" ->
            [panic |-> FALSE, sig |-> [sig EXCEPT !.revocation_key = <<p.v>>]]
      [] p.t = "SignersUserID" ->
            [panic |-> FALSE, sig |-> [sig EXCEPT !.signers_userid = <<p.v>>]]

\* v4_parser: `for p in hsub { match p ... }`
RECURSIVE Collate(_, _)
Collate(sig, hsub) ==
    IF hsub = <<>> THEN [panic |-> FALSE, sig |-> sig]
    ELSE LET one == CollateOne(sig, Head(hsub))
         IN IF one.panic THEN one ELSE Collate(one.sig, Tail(hsub))

\* flat_map!(take!(n), subpackets)
subpacket_region(i, n) ==
    Bind(take(i, n), LAMBDA data :
    Bind(subpackets(data.val), LAMBDA r : Done(data.rest, r.val)))

\* the unhashed subpackets folded into the record as well
v4_collated_all(usub, rest, folded) ==
    IF folded.panic THEN Fail("Panic")
    ELSE LET again == Collate(folded.sig, usub)
         IN IF again.panic THEN Fail("Panic")
            ELSE Done(rest, [again.sig EXCEPT !.unhashed_subpackets = usub])

\* v4_parser: the fold over the hashed subpackets, then the result
v4_collated(usub, rest, folded) ==
    IF folded.panic THEN Fail("Panic")
    ELSE Done(rest, [folded.sig EXCEPT !.unhashed_subpackets = usub])

\* v4_parser
v4_parser(i) ==
    Bind(enum_u8(i, SignatureTypes), LAMBDA typ :
    Bind(enum_u8(typ.rest, PublicKeyAlgorithms), LAMBDA pub_alg :
    Bind(enum_u8(pub_alg.rest, HashAlgorithms), LAMBDA hash_alg :
    Bind(be_u16(hash_alg.rest), LAMBDA hsub_len :
    Bind(subpacket_region(hsub_len.rest, hsub_len.val), LAMBDA hsub :
    Bind(be_u16(hsub.rest), LAMBDA usub_len :
    Bind(subpacket_region(usub_len.rest, usub_len.val), LAMBDA usub :
    v4_collated(usub.val, usub.rest,
                Collate(SignatureNew(4, typ.val, pub_alg.val, hash_alg.val),
                        hsub.val)))))))))

\* PublicKeyAlgorithm::RSA, HashAlgorithm::SHA1
PkAlgoRSA == 1
HashSHA1 == 2

\* v2_parser: tag!(&[5]), the signature type, the rest ignored
v2_parser(i) ==
    LET five == tag(i, <<5>>)
    IN IF five.st # "Done" THEN five
       ELSE LET typ == enum_u8(five.rest, SignatureTypes)
            IN IF typ.st # "Done" THEN typ
               ELSE Done(typ.rest, SignatureNew(2, typ.val, PkAlgoRSA, HashSHA1))

\* v3_parser: the same, as a V3 signature
v3_parser(i) ==
    LET five == tag(i, <<5>>)
    IN IF five.st # "Done" THEN five
       ELSE LET typ == enum_u8(five.rest, SignatureTypes)
            IN IF typ.st # "Done" THEN typ
               ELSE Done(typ.rest, SignatureNew(3, typ.val, PkAlgoRSA, HashSHA1))

\* parser: the version byte selects the dialect
parser(i) ==
    LET ver == enum_u8(i, SignatureVersions)
    IN IF ver.st # "Done" THEN ver
       ELSE CASE ver.val = 2 -> v2_parser(ver.rest)
              [] ver.val = 3 -> v3_parser(ver.rest)
              [] ver.val = 4 -> v4_parser(ver.rest)

\* ---- the operation exercised, and its inputs ----
MaxHashed == 2

NestedPacket == <<4, 16, 17, 2, 0, 6, 5, 2, 0, 0, 0, 2, 0, 0, 171, 205>>

\* the subpackets a region is put together from, as they stand on the wire:
\* length (type byte included), type, body
WireSubpacket ==
    [n \in {"Created1", "Created2", "IssuerA", "IssuerB", "PrefSym98", "PrefSym7",
            "PrefHash", "PrefHash2", "PrefCom", "PrefCom2", "Primary1", "Primary0",
            "KeyExp1", "KeyExp2", "Notation", "PolicyURI", "Exportable", "Trust",
            "RegEx", "SigTarget", "Unknown99", "ZeroLen", "Embedded"} |->
        CASE n = "Created1" -> <<5, 2, 0, 0, 0, 1>>
          [] n = "Created2" -> <<5, 2, 0, 0, 0, 2>>
          [] n = "IssuerA" -> <<9, 16, 1, 2, 3, 4, 5, 6, 7, 8>>
          [] n = "IssuerB" -> <<9, 16, 8, 7, 6, 5, 4, 3, 2, 1>>
          [] n = "PrefSym98" -> <<3, 11, 9, 8>>
          [] n = "PrefSym7" -> <<2, 11, 7>>
          [] n = "PrefHash" -> <<3, 21, 8, 10>>
          [] n = "PrefHash2" -> <<2, 21, 2>>
          [] n = "PrefCom" -> <<3, 22, 2, 1>>
          [] n = "PrefCom2" -> <<2, 22, 0>>
          [] n = "Primary1" -> <<2, 25, 1>>
          [] n = "Primary0" -> <<2, 25, 0>>
          [] n = "KeyExp1" -> <<5, 9, 0, 0, 1, 0>>
          [] n = "KeyExp2" -> <<5, 9, 0, 0, 2, 0>>
          [] n = "Notation" -> <<11, 20, 128, 0, 0, 0, 0, 1, 0, 1, 97, 98>>
          [] n = "PolicyURI" -> <<2, 26, 120>>
          [] n = "Exportable" -> <<2, 4, 1>>
          [] n = "Trust" -> <<3, 5, 1, 60>>
          [] n = "RegEx" -> <<2, 6, 97>>
          [] n = "SigTarget" -> <<2, 31, 1>>
          [] n = "Unknown99" -> <<2, 99, 0>>
          [] n = "ZeroLen" -> <<0, 2>>
          \* a nested v4 packet: generic certification, DSA, SHA1, one hashed
          \* creation time, no unhashed subpackets, the quick-check bytes
          [] n = "Embedded" -> <<17, 32>> \o NestedPacket]

HashedCatalogue ==
    {"Created1", "Created2", "IssuerA", "IssuerB", "PrefSym98", "PrefSym7", "PrefHash",
     "PrefHash2", "PrefCom", "PrefCom2", "Primary1", "KeyExp1", "KeyExp2", "Notation",
     "PolicyURI", "Exportable", "Trust", "RegEx", "SigTarget", "Unknown99", "ZeroLen",
     "Embedded"}

\* the unhashed regions tried
UnhashedRegions ==
    {<<>>, <<"IssuerB">>, <<"Unknown99">>, <<"IssuerB", "Primary0">>,
     <<"Unknown99", "IssuerB">>}

RECURSIVE RegionBytes(_)
RegionBytes(names) ==
    IF names = <<>> THEN <<>> ELSE WireSubpacket[Head(names)] \o RegionBytes(Tail(names))

\* u16::to_be_bytes of a region length
LenBytes(bytes) == <<Len(bytes) \div 256, Len(bytes) % 256>>

\* the packet body: version, signature type (positive certification), RSA,
\* SHA256, the two regions, the quick-check bytes and the start of an MPI
SignaturePacket(in) ==
    LET h == RegionBytes(in.hashed)
        u == RegionBytes(in.unhashed)
    IN Concat(<<(<<in.version, 19, 1, 8>>), LenBytes(h), h, LenBytes(u), u,
                (<<171, 205, 0, 8, 255>>)>>)

\* the type byte of a wire subpacket
WireType(n) == WireSubpacket[n][2]

Names(seq) == {seq[i] : i \in 1..Len(seq)}

\* both build profiles are tried where they can differ: on a zero length
SigInputs ==
    {[op |-> "parse", version |-> 4, hashed |-> h, unhashed |-> u, overflow_checks |-> oc] :
        h \in SeqsUpTo(HashedCatalogue, MaxHashed),
        u \in UnhashedRegions,
        oc \in BOOLEAN}
    \ {in \in [op : {"parse"}, version : {4},
               hashed : SeqsUpTo(HashedCatalogue, MaxHashed),
               unhashed : UnhashedRegions,
               overflow_checks : {FALSE}] : "ZeroLen" \notin Names(in.hashed)}

\* parser(packet), and beside its result what subpackets made of the hashed
\* region on its own, and what parser makes of the same packet with an empty
\* unhashed region
SigParse ==
    /\ s_in.op = "parse" /\ s_out.op = "none"
    /\ LET r == parser(SignaturePacket(s_in))
           h == subpackets(RegionBytes(s_in.hashed))
           b == parser(SignaturePacket([s_in EXCEPT !.unhashed = <<>>]))
       IN s_out' = [op |-> "parse", st |-> r.st,
                    sig |-> IF r.st = "Done" THEN <<r.val>> ELSE <<>>,
                    hsub_st |-> h.st,
                    hsub |-> IF h.st = "Done" THEN h.val ELSE <<>>,
                    base_st |-> b.st,
                    base |-> IF b.st = "Done" THEN <<b.val>> ELSE <<>>]
    /\ UNCHANGED <<s_in, iterVars, ecdhVars, skVars>>

InitSig ==
    /\ s_in \in SigInputs
    /\ s_out = [op |-> "none"]
    /\ IterIdle /\ EcdhIdle /\ SkIdle

NextSig == SigParse

SpecSig == InitSig /\ [][NextSig]_vars

Init ==
    /\ \E packets \in SeqsUpTo(EdataPackets, MaxEdata) : MessageDecrypterNew(packets)
    /\ EcdhIdle /\ SkIdle /\ SigIdle

Next ==
    \/ NextAtEnd /\ UNCHANGED <<ecdhVars, skVars, sigVars>>
    \/ NextDecrypt /\ UNCHANGED <<ecdhVars, skVars, sigVars>>
    \/ NextDelegate /\ UNCHANGED <<ecdhVars, skVars, sigVars>>

Spec == Init /\ [][Next]_vars

(***************************************************************************)
(* The claims.                                                             *)
(***************************************************************************)
AllIntact == \A i \in 1..Len(edata) : edata[i].intact

\* C1: over two or more packets that all decrypt, once the inner stream of
\* packet `pos` is exhausted (the last call returned None from it) and packets
\* remain, the next call of next() takes and decrypts packet pos + 1.
C1_NextPacketAfterExhaustion ==
    [][(/\ Len(edata) >= 2 /\ AllIntact
        /\ current_msgs.some /\ current_msgs.items = <<>> /\ ret = None
        /\ pos < Len(edata)
        /\ calls' = calls + 1)
       => (pos' = pos + 1 /\ attempts' = Append(attempts, pos + 1))]_vars

\* the call about to be made takes a packet whose decryption fails
DecryptWillFail == ~current_msgs.some /\ pos < Len(edata) /\ ~edata[pos + 1].intact

\* C2: a call in which the decryption of edata[i] fails returns Some(Err(..)),
\* leaves current_msgs unset and pos = i + 1; the call after it attempts
\* edata[i + 1], or returns None when no packet is left.
C2_FailedSlotDoesNotPoison ==
    [][calls' = calls + 1 =>
        /\ DecryptWillFail =>
              /\ ret' = SomeErr(pos + 1)
              /\ ~current_msgs'.some
              /\ pos' = pos + 1
        /\ ret.kind = "Err" =>
              /\ pos = ret.slot
              /\ ~current_msgs.some
              /\ IF pos < Len(edata)
                 THEN attempts' = Append(attempts, pos + 1) /\ pos' = pos + 1
                 ELSE ret' = None /\ pos' = pos]_vars

\* a slot failed and the slot after it was decrypted and has yielded a message
C2_Witness ==
    /\ ret.kind = "Ok" /\ ret.slot >= 2
    /\ ~edata[ret.slot - 1].intact
    /\ Len(attempts) = ret.slot /\ attempts[ret.slot] = ret.slot

\* C3: encrypting a plaintext of 1 to 238 bytes to a generated key and
\* decrypting the resulting MPIs with its secret gives back the plaintext.
C3_RoundTrip ==
    (e_out.op = "roundtrip" /\ 1 <= e_in.len /\ e_in.len < 239) =>
        /\ e_out.enc_ok
        /\ e_out.dec.res = "Ok"
        /\ e_out.dec.key = PlainOf(e_in.len, e_in.b0)

\* a round trip in which the wrapped key lost a leading zero byte as an MPI
C3_Witness ==
    /\ e_out.op = "roundtrip" /\ e_in.len >= 1
    /\ e_out.dec.res = "Ok"
    /\ Len(e_out.mpis[3]) < Len(e_out.raw[3])
    /\ e_out.dec.key = PlainOf(e_in.len, e_in.b0)

\* the unpadding rule of the claim: a non-empty multiple of 8, pad byte P in
\* 1..len, the last P bytes all P, at least one byte left
UnpadAccepts(buf) ==
    /\ Len(buf) > 0 /\ Len(buf) % 8 = 0
    /\ LET P == buf[Len(buf)]
       IN /\ 1 <= P /\ P <= Len(buf)
          /\ \A i \in (Len(buf) - P + 1)..Len(buf) : buf[i] = P
          /\ Len(buf) - P >= 1

\* C4: decrypt's unpadding accepts an unwrapped buffer exactly when the rule
\* holds, the result then being the buffer without its last P bytes; every
\* other buffer makes decrypt return an error.
C4_UnpadAcceptsExactly ==
    (e_out.op \in {"roundtrip", "foreign"} /\ e_out.dec.unwrapped) =>
        LET buf == e_out.dec.padded
        IN IF UnpadAccepts(buf)
           THEN /\ e_out.dec.res = "Ok"
                /\ e_out.dec.key = Upto(buf, Len(buf) - buf[Len(buf)])
           ELSE e_out.dec.res = "Err" /\ e_out.dec.key = <<>>

\* C10: with a number of MPIs other than 3, a first MPI not 33 bytes long or
\* a secret not 32 bytes long, ecdh::decrypt returns an error, having done
\* neither the key agreement nor the unwrap.
C10_PreconditionsEnforced ==
    (/\ e_out.op = "malformed"
     /\ \/ Len(e_out.mpis) # 3
        \/ Len(e_out.mpis[1]) # 33
        \/ Len(MalformedSecret(e_in)) # 32) =>
        /\ e_out.dec.res = "Err"
        /\ e_out.dec.key = <<>>
        /\ ~e_out.dec.dh
        /\ ~e_out.dec.unwrapped

\* three MPIs with a good point, and a secret one byte short
C10_Witness ==
    /\ e_out.op = "malformed"
    /\ Len(e_out.mpis) = 3 /\ Len(e_out.mpis[1]) = 33
    /\ Len(MalformedSecret(e_in)) = 31
    /\ e_out.dec.res = "Err" /\ e_out.dec.err = "invalid secret point"

\* the cleartext blob the asymmetric step produced, if it produced one
HasBlob == k_in.op = "secret_key" /\ k_in.kind \in {"RSA", "ECDH"} /\ StepOf(k_in).ok

\* C5: neither operation returns Ok with the algorithm Plaintext; a blob
\* whose first byte is 0, or a SKESK packet whose algorithm is Plaintext,
\* gives an error and no key.
C5_NeverPlaintext ==
    k_out.op # "none" =>
        /\ k_out.r.res = "Ok" => k_out.r.alg # Plaintext
        /\ (HasBlob /\ StepOf(k_in).data # <<>> /\ StepOf(k_in).data[1] = 0) =>
              k_out.r.res = "Err" /\ k_out.r.key = <<>>
        /\ (k_in.op = "password" /\ k_in.palg = Plaintext) =>
              k_out.r.res = "Err" /\ k_out.r.key = <<>>
        /\ (/\ k_in.op = "password" /\ k_in.palg # Plaintext /\ k_in.s2k_ok
            /\ k_in.has_key /\ SkeskBlob(k_in) # <<>> /\ SkeskBlob(k_in)[1] = 0) =>
              k_out.r.res = "Err" /\ k_out.r.key = <<>>

\* a SKESK packet under AES whose decrypted blob starts with the byte 0
C5_Witness ==
    /\ k_out.op = "password" /\ k_in.palg # Plaintext /\ k_in.s2k_ok /\ k_in.has_key
    /\ Len(SkeskBlob(k_in)) > 1 /\ SkeskBlob(k_in)[1] = 0
    /\ k_out.r.res = "Err"
    /\ k_out.r.err = "session key algorithm cannot be plaintext"

\* the two checksum bytes that belong to `key`
ChecksumBytes(key) == <<(SumSeq(key) % 65536) \div 256, (SumSeq(key) % 65536) % 256>>

\* C6: decrypt_session_key returns Ok((key, alg)) only with the checksum
\* field equal to the sum of the key bytes mod 65536, big endian, the key and
\* the field being decrypted[1..len-2] and decrypted[len-2..] for an ECDH key,
\* decrypted[1..=key_size] and the two bytes after it otherwise; a blob whose
\* checksum bytes differ gives an error and no key.
C6_ChecksumDecides ==
    (k_out.op = "secret_key" /\ HasBlob) =>
        LET d == StepOf(k_in).data
            n == Len(d)
            ks == IF n > 0 THEN key_size(d[1]) ELSE 0
            long == IF k_in.kind = "ECDH" THEN n >= 3 ELSE n >= ks + 3
            key == IF k_in.kind = "ECDH" THEN SubSeq(d, 2, n - 2) ELSE SubSeq(d, 2, ks + 1)
            field == IF k_in.kind = "ECDH" THEN SubSeq(d, n - 1, n)
                     ELSE SubSeq(d, ks + 2, ks + 3)
        IN /\ k_out.r.res = "Ok" =>
                /\ long
                /\ k_out.r.key = key
                /\ k_out.r.alg = d[1]
                /\ field = ChecksumBytes(key)
           /\ (long /\ field # ChecksumBytes(key)) =>
                k_out.r.res = "Err" /\ k_out.r.key = <<>>

\* an ECDH blob, right but for one flipped bit in its last byte
C6_Witness ==
    /\ k_out.op = "secret_key" /\ HasBlob /\ k_in.kind = "ECDH"
    /\ k_in.alg # Plaintext /\ k_in.klen = 16 /\ k_in.trail = 0 /\ k_in.cut = 0 - 1
    /\ k_in.cks = "flip_last"
    /\ k_out.r.res = "Err" /\ k_out.r.err = "invalid simple checksum"

UnimplementedTypes == {4, 5, 6, 26, 31}

\* C7: a hashed or unhashed region holding a subpacket of a type outside
\* SubpacketType makes the parse fail: no Signature is returned.
C7_UnknownTypeRejected ==
    (/\ s_out.op = "parse"
     /\ \E n \in Names(s_in.hashed) \cup Names(s_in.unhashed) :
            WireType(n) \notin KnownSubpacketTypes) =>
        s_out.st # "Done"

\* C8: a region in which the parser comes to a subpacket of type
\* ExportableCertification, TrustSignature, RegularExpression, PolicyURI or
\* SignatureTarget makes the parser return an error to its caller.
C8_UnimplementedTypeIsError ==
    (/\ s_out.op = "parse"
     /\ \E i \in 1..Len(s_in.hashed) :
            /\ WireType(s_in.hashed[i]) \in UnimplementedTypes
            /\ \A j \in 1..(i - 1) : s_in.hashed[j] \notin {"Unknown99", "ZeroLen"}) =>
        s_out.st = "Error"

\* the subpackets of variant t among hsub, in order
RECURSIVE OfVariant(_, _)
OfVariant(hsub, t) ==
    IF hsub = <<>> THEN <<>>
    ELSE (IF Head(hsub).t = t THEN <<Head(hsub)>> ELSE <<>>) \o OfVariant(Tail(hsub), t)

RECURSIVE ConcatLists(_)
ConcatLists(ps) == IF ps = <<>> THEN <<>> ELSE Head(ps).v \o ConcatLists(Tail(ps))

\* the last subpacket of variant t among hsub, as an Option
LastOf(hsub, t) ==
    LET ps == OfVariant(hsub, t) IN IF ps = <<>> THEN <<>> ELSE <<ps[Len(ps)]>>

\* the claim as first stated, for the regions whose subpackets were all parsed
\* C9 (original): a list field is the concatenation of the lists of all
\* occurrences of its subpacket, in order.
C9_ListsExtend ==
    (s_out.op = "parse" /\ s_out.st = "Done" /\ Len(s_out.hsub) = Len(s_in.hashed)) =>
        LET sig == s_out.sig[1]
        IN /\ sig.preferred_symmetric_algs =
                 ConcatLists(OfVariant(s_out.hsub, "PreferredSymmetricAlgorithms"))
           /\ sig.preferred_hash_algs =
                 ConcatLists(OfVariant(s_out.hsub, "PreferredHashAlgorithms"))
           /\ sig.preferred_compression_algs =
                 ConcatLists(OfVariant(s_out.hsub, "PreferredCompressionAlgorithms"))

ListOfLast(hsub, t) == IF LastOf(hsub, t) = <<>> THEN <<>> ELSE LastOf(hsub, t)[1].v

ScalarOfLast(hsub, t) == IF LastOf(hsub, t) = <<>> THEN <<>> ELSE <<LastOf(hsub, t)[1].v[1]>>

\* C9 (amended): among the hashed subpackets the region parser returned, the
\* last occurrence of a type decides its field, for the scalar fields and for
\* the list fields alike: a later list replaces an earlier one.
C9_LastOccurrenceWins ==
    (s_out.op = "parse" /\ s_out.st = "Done") =>
        LET sig == s_out.sig[1]
            hsub == s_out.hsub
        IN /\ sig.created = ScalarOfLast(hsub, "SignatureCreationTime")
           /\ sig.key_expiration_time = ScalarOfLast(hsub, "KeyExpirationTime")
           /\ sig.issuer = (IF LastOf(hsub, "Issuer") = <<>> THEN <<>>
                            ELSE <<LastOf(hsub, "Issuer")[1].v>>)
           /\ sig.is_primary = (IF LastOf(hsub, "IsPrimary") = <<>> THEN FALSE
                                ELSE LastOf(hsub, "IsPrimary")[1].v[1] = 1)
           /\ sig.preferred_symmetric_algs = ListOfLast(hsub, "PreferredSymmetricAlgorithms")
           /\ sig.preferred_hash_algs = ListOfLast(hsub, "PreferredHashAlgorithms")
           /\ sig.preferred_compression_algs =
                 ListOfLast(hsub, "PreferredCompressionAlgorithms")

\* two preferred-symmetric-algorithm subpackets with different lists
C9_Witness ==
    /\ s_out.op = "parse" /\ s_out.st = "Done"
    /\ Len(OfVariant(s_out.hsub, "PreferredSymmetricAlgorithms")) >= 2
    /\ s_out.hsub[1].v # s_out.hsub[2].v
    /\ s_out.sig[1].preferred_symmetric_algs = s_out.hsub[Len(s_out.hsub)].v

\* C11: a 33-byte point whose first byte is not 0x40 is refused in both
\* directions: ecdh::encrypt to such a q fails, and ecdh::decrypt of a message
\* whose mpis[0] is such a point returns an error without a key agreement.
C11_PointPrefixChecked ==
    (/\ e_out.op = "prefix"
     /\ Len(e_out.mpis[1]) = 33 /\ e_out.mpis[1][1] # 64) =>
        /\ ~e_out.enc_ok
        /\ e_out.dec.res = "Err"
        /\ ~e_out.dec.dh

\* C15: whenever the three length preconditions hold, decrypt ends in Ok or
\* Err; a wrapped key longer than the declared length L gives Err, not an
\* abort in the computation of L - |mpis[2]|.
C15_RightAlignNeverAborts ==
    (/\ e_out.op # "none"
     /\ Len(e_out.mpis) = 3 /\ Len(e_out.mpis[1]) = 33
     /\ (e_in.op = "malformed" => Len(MalformedSecret(e_in)) = 32)) =>
        /\ e_out.dec.res \in {"Ok", "Err"}
        /\ LET L == IF e_out.mpis[2] = <<>> THEN 0 ELSE e_out.mpis[2][1]
           IN Len(e_out.mpis[3]) > L => e_out.dec.res = "Err"

\* the record parser makes of NestedPacket
NestedSignature ==
    [SignatureNew(4, 16, 17, 2) EXCEPT !.created = <<dt_from_timestamp(2)>>]

\* C12: a v4 signature whose hashed region holds an EmbeddedSignature
\* subpacket with the well-formed nested packet N comes back with
\* embedded_signature = Some(N), its other fields being the outer packet's.
C12_EmbeddedSignatureStored ==
    (/\ s_out.op = "parse" /\ s_out.st = "Done"
     /\ \E i \in 1..Len(s_out.hsub) : s_out.hsub[i].t = "EmbeddedSignature") =>
        LET sig == s_out.sig[1]
        IN /\ sig.embedded_signature = <<NestedSignature>>
           /\ sig.version = 4 /\ sig.typ = 19 /\ sig.pub_alg = 1 /\ sig.hash_alg = 8

\* the number of names before the first one of a type outside SubpacketType
RECURSIVE KnownPrefixLen(_)
KnownPrefixLen(names) ==
    IF names = <<>> \/ WireType(Head(names)) \notin KnownSubpacketTypes THEN 0
    ELSE 1 + KnownPrefixLen(Tail(names))

WithoutUnhashed(sig) == [sig EXCEPT !.unhashed_subpackets = <<>>]

\* C14: the unhashed region decides unhashed_subpackets and nothing else:
\* the field holds the parsed unhashed subpackets in wire order, and every
\* other field is what the same packet with an empty unhashed region gives.
C14_UnhashedStoredVerbatim ==
    (s_out.op = "parse" /\ s_out.st = "Done") =>
        LET sig == s_out.sig[1]
            n == KnownPrefixLen(s_in.unhashed)
        IN /\ s_out.base_st = "Done"
           /\ WithoutUnhashed(sig) = WithoutUnhashed(s_out.base[1])
           /\ s_out.base[1].unhashed_subpackets = <<>>
           /\ Len(sig.unhashed_subpackets) = n
           /\ \A i \in 1..n :
                 sig.unhashed_subpackets[i] =
                    subpacket(SubpacketTypeName[WireType(s_in.unhashed[i])],
                              From(WireSubpacket[s_in.unhashed[i]], 2)).val

\* an issuer in each region: the record keeps the hashed one
C14_Witness ==
    /\ s_out.op = "parse" /\ s_out.st = "Done"
    /\ s_in.hashed = <<"IssuerA">> /\ s_in.unhashed = <<"IssuerB">>
    /\ s_out.sig[1].issuer = <<From(WireSubpacket["IssuerA"], 2)>>
    /\ Len(s_out.sig[1].unhashed_subpackets) = 1
    /\ s_out.sig[1].unhashed_subpackets[1].t = "Issuer"

\* the method next() is to call on a packet
MethodFor(packet) ==
    IF packet.tag = "SymEncryptedProtectedData" THEN "decrypt_protected" ELSE "decrypt"

\* C13: over any calls of next(), 0 <= pos <= edata.len() and pos never
\* decreases; pos changes only in a call that found current_msgs unset and
\* pos < edata.len(), then by exactly 1, the same call attempting edata[old
\* pos] with decrypt_protected iff its tag is SymEncryptedProtectedData; a call
\* with current_msgs unset and pos >= edata.len() returns None and changes
\* nothing.
C13_PosDiscipline ==
    [][/\ pos \in 0..Len(edata) /\ pos' \in 0..Len(edata')
       /\ pos' >= pos
       /\ pos' # pos => ~current_msgs.some /\ pos < Len(edata)
       /\ (~current_msgs.some /\ pos < Len(edata)) =>
             /\ pos' = pos + 1
             /\ attempts' = Append(attempts, pos + 1)
             /\ methods' = Append(methods, MethodFor(edata[pos + 1]))
       /\ (~current_msgs.some /\ pos >= Len(edata)) =>
             /\ ret' = None
             /\ UNCHANGED <<edata, pos, current_msgs, attempts, yielded, methods>>
       /\ Len(attempts') = Len(methods')]_vars

\* a protected packet that failed, then an unprotected one, both attempted
C13_Witness ==
    /\ Len(edata) >= 2 /\ pos = 2
    /\ edata[1].tag = "SymEncryptedProtectedData" /\ edata[2].tag = "SymEncryptedData"
    /\ attempts = <<1, 2>>
    /\ methods = <<"decrypt_protected", "decrypt">>

\* a blob too short to hold algorithm byte, key and two checksum bytes
BlobTooShort ==
    LET d == StepOf(k_in).data
    IN \/ d = <<>>
       \/ k_in.kind = "ECDH" /\ Len(d) < 3
       \/ k_in.kind # "ECDH" /\ Len(d) < key_size(d[1]) + 3

\* C16: decrypt_session_key ends in Ok or Err for every blob the algorithm
\* step can return; a blob too short for algorithm byte, key and checksum
\* gives Err, not an abort on an index or a slice.
C16_ShortBlobIsError ==
    (k_out.op = "secret_key" /\ HasBlob) =>
        /\ k_out.r.res \in {"Ok", "Err"}
        /\ BlobTooShort => k_out.r.res = "Err"

====
